---- MODULE Spec2Model ----
(***************************************************************************)
(* Wearable-data health risk predictor: the rule-based scoring engine of   *)
(* risk_score.py, the daily aggregation of ingest_apple.py and             *)
(* ingest_fitbit.py, and the daily_metrics store the ingestion runs write. *)
(*                                                                         *)
(* Numbers are fixed-point with five decimals: the number x is the integer *)
(* x * Unit.  Every product the scoring code forms (weight * fraction) is  *)
(* a multiple of 0.5 and is exact in IEEE doubles, so the fixed-point sums *)
(* are the sums the code computes.  An optional value (None, NaN) is the   *)
(* empty sequence NaN; a present value v is <<v>>.                         *)
(***************************************************************************)
EXTENDS Integers, Sequences, FiniteSets, TLC

VARIABLES
    pc,             \* position of the run in progress
    row,            \* risk_score.py: the daily_metrics row being scored
    contrib,        \* per scored metric, what _score_with_bands returned
    matched,        \* per scored metric, the band that matched (0: none)
    risk_score,     \* df["risk_score"] of the row
    risk_level,     \* df["risk_level"] of the row
    run,            \* ingestion: which source's build is in progress
    records,        \* ingest_apple.py: records[r_type], the parsed samples
    csv,            \* ingest_fitbit.py: the four loaded CSV tables
    daily,          \* the DataFrame build_daily_metrics returned
    outcome,        \* how build_daily_metrics ended
    users,          \* store: the users table
    daily_metrics,  \* store: the daily_metrics table
    before,         \* history: daily_metrics as the last ingestion run found it
    upsert_calls,   \* the batches the last run handed to upsert
    runs,           \* number of runs so far
    risk_predictions, \* store: the risk_predictions table
    lookups         \* history: the get-or-create calls made so far

vars == <<pc, row, contrib, matched, risk_score, risk_level, run, records, csv,
          daily, outcome, users, daily_metrics, before, upsert_calls, runs,
          risk_predictions, lookups>>

scoreVars == <<row, contrib, matched, risk_score, risk_level>>
buildVars == <<run, records, csv, daily, outcome>>
storeVars == <<users, daily_metrics, before, upsert_calls, runs,
               risk_predictions, lookups>>

(***************************************************************************)
(* Numbers                                                                 *)
(***************************************************************************)
Unit == 100000

NaN == <<>>
Num(v) == <<v>>
IsNa(x) == x = <<>>
Val(x) == x[1]

Min(a, b) == IF a < b THEN a ELSE b

(***************************************************************************)
(* risk_score.py: the scoring engine                                       *)
(***************************************************************************)
ScoredMetrics == {"steps", "sleep_minutes", "resting_hr", "active_minutes",
                  "hrv_sdnn", "vo2max", "walking_hr_avg"}

\* the columns of a daily_metrics row the scoring run reads or ignores
RowColumns == ScoredMetrics \cup {"active_energy_kcal"}

weights == [m \in ScoredMetrics |->
    CASE m = "steps" -> 20
      [] m = "sleep_minutes" -> 20
      [] m = "resting_hr" -> 20
      [] m = "active_minutes" -> 10
      [] m = "hrv_sdnn" -> 15
      [] m = "vo2max" -> 10
      [] m = "walking_hr_avg" -> 5]

\* A band: the dict key (the fraction, in tenths) and its lambda, as the
\* comparison and the threshold; "true" is lambda v: True.
Band(tenths, op, thr) == [fraction |-> tenths * (Unit \div 10), op |-> op, thr |-> thr * Unit]

bands == [m \in ScoredMetrics |->
    CASE m = "steps" ->
           <<Band(10, "lt", 3000), Band(7, "lt", 6000), Band(4, "lt", 9000), Band(2, "true", 0)>>
      [] m = "sleep_minutes" ->
           <<Band(10, "lt", 360), Band(7, "lt", 420), Band(4, "lt", 540), Band(2, "true", 0)>>
      [] m = "resting_hr" ->
           <<Band(10, "gt", 90), Band(7, "gt", 80), Band(4, "gt", 70), Band(2, "true", 0)>>
      [] m = "active_minutes" ->
           <<Band(8, "lt", 20), Band(6, "lt", 40), Band(4, "lt", 60), Band(2, "true", 0)>>
      [] m = "hrv_sdnn" ->
           <<Band(10, "lt", 20), Band(7, "lt", 40), Band(5, "lt", 60), Band(3, "true", 0)>>
      [] m = "vo2max" ->
           <<Band(10, "lt", 30), Band(7, "lt", 35), Band(5, "lt", 45), Band(3, "true", 0)>>
      [] m = "walking_hr_avg" ->
           <<Band(10, "gt", 120), Band(7, "gt", 110), Band(5, "gt", 100), Band(3, "true", 0)>>]

\* predicate(float(value)) of one band
BandHolds_nonstrict(b, v) ==
    CASE b.op = "lt" -> v <= b.thr
      [] b.op = "gt" -> v >= b.thr
      [] OTHER -> TRUE

BandHolds(b, v) ==
    CASE b.op = "lt" -> v < b.thr
      [] b.op = "gt" -> v > b.thr
      [] OTHER -> TRUE

\* the position of the band the loop of _score_with_bands returns from, 0 when
\* the loop ends without a match (or the value is missing)
MatchedBand(value, bs) ==
    IF IsNa(value) THEN 0
    ELSE LET hits == {i \in 1..Len(bs) : BandHolds(bs[i], Val(value))}
         IN  IF hits = {} THEN 0
             ELSE CHOOSE i \in hits : \A j \in hits : i <= j

missing_penalty == Unit \div 2

ScoreWithBands_deduct(value, weight, bs, penalty) ==
    IF IsNa(value) THEN 0 - weight * penalty
    ELSE LET i == MatchedBand(value, bs)
         IN  IF i # 0 THEN weight * bs[i].fraction
             ELSE weight * (Unit \div 2)

ScoreWithBands_zero(value, weight, bs, penalty) ==
    IF IsNa(value) THEN 0
    ELSE LET i == MatchedBand(value, bs)
         IN  IF i # 0 THEN weight * bs[i].fraction
             ELSE weight * (Unit \div 2)

ScoreWithBands(value, weight, bs, penalty) ==
    IF IsNa(value) THEN weight * penalty
    ELSE LET i == MatchedBand(value, bs)
         IN  IF i # 0 THEN weight * bs[i].fraction
             ELSE weight * (Unit \div 2)

\* row.get(m): a column the row does not carry reads as None
RowGet(r, m) == IF m \in DOMAIN r THEN r[m] ELSE NaN

Contribution(r, m) == ScoreWithBands(RowGet(r, m), weights[m], bands[m], missing_penalty)

ComputeRiskScore_noSleep(r) ==
    Min(Contribution(r, "steps") + Contribution(r, "resting_hr")
        + Contribution(r, "active_minutes") + Contribution(r, "hrv_sdnn")
        + Contribution(r, "vo2max") + Contribution(r, "walking_hr_avg"), 100 * Unit)

ComputeRiskScore(r) ==
    Min(Contribution(r, "steps") + Contribution(r, "sleep_minutes")
        + Contribution(r, "resting_hr") + Contribution(r, "active_minutes")
        + Contribution(r, "hrv_sdnn") + Contribution(r, "vo2max")
        + Contribution(r, "walking_hr_avg"), 100 * Unit)

CategorizeRiskLevel_40(score) ==
    IF score >= 70 * Unit THEN "high"
    ELSE IF score >= 40 * Unit THEN "medium"
    ELSE "low"

CategorizeRiskLevel(score) ==
    IF score >= 70 * Unit THEN "high"
    ELSE IF score >= 45 * Unit THEN "medium"
    ELSE "low"

(***************************************************************************)
(* The records the scoring specification draws                             *)
(***************************************************************************)
Opt(S) == {NaN} \cup {Num(v * Unit) : v \in S}

ScoreInputs ==
    [steps : Opt({2000, 3000, 6000, 8000, 9000}),
     sleep_minutes : Opt({300, 360, 480, 540}),
     resting_hr : Opt({60, 80, 90, 95}),
     active_minutes : Opt({10, 20, 40, 60}),
     hrv_sdnn : Opt({20, 70}),
     vo2max : Opt({30, 50}),
     walking_hr_avg : Opt({120, 130}),
     active_energy_kcal : Opt({200})]

(***************************************************************************)
(* pandas: what the aggregation code relies on                             *)
(***************************************************************************)
RECURSIVE SortedSeq(_)
\* sorted(date_index)
SortedSeq(S) ==
    IF S = {} THEN <<>>
    ELSE LET m == CHOOSE x \in S : \A y \in S : x <= y
         IN  <<m>> \o SortedSeq(S \ {m})

Range(q) == {q[i] : i \in DOMAIN q}

\* the present values of a sequence of optional values
Present(q) == SelectSeq(q, LAMBDA x : ~IsNa(x))

RECURSIVE Total(_)
Total(q) == IF q = <<>> THEN 0 ELSE Val(Head(q)) + Total(Tail(q))

\* groupby(...).sum(): NaN is skipped; a group with no number left sums to 0
GroupSum(q) == Num(Total(Present(q)))

\* groupby(...).mean(): NaN is skipped; a group with no number left is NaN
GroupMean(q) ==
    IF Present(q) = <<>> THEN NaN
    ELSE Num(Total(Present(q)) \div Len(Present(q)))

\* groupby(...).min(): NaN is skipped; a group with no number left is NaN
GroupMin(q) ==
    IF Present(q) = <<>> THEN NaN
    ELSE LET S == Range(Present(q))
         IN  CHOOSE x \in S : \A y \in S : Val(x) <= Val(y)

Reduce(how, q) ==
    CASE how = "sum" -> GroupSum(q)
      [] how = "mean" -> GroupMean(q)
      [] how = "min" -> GroupMin(q)

\* the cells of one column of the rows
Cells(rows, col) == [i \in DOMAIN rows |-> rows[i][col]]

\* rows.groupby("date")[col].<how>() read at date d, as the assignment
\* daily[...] = group aligns it on the date index: NaN where d has no group
GroupAt(rows, col, how, d) ==
    LET g == SelectSeq(rows, LAMBDA r : r.date = Num(d))
    IN  IF g = <<>> THEN NaN ELSE Reduce(how, Cells(g, col))

\* the dates of a table's rows, NaT dropped
TableDates(rows) == {Val(rows[i].date) : i \in {j \in DOMAIN rows : ~IsNa(rows[j].date)}}

\* int(x): truncation of a fixed-point number
IntOf(x) == IF x >= 0 THEN (x \div Unit) * Unit ELSE 0 - (((0 - x) \div Unit) * Unit)

(***************************************************************************)
(* ingest_apple.py                                                         *)
(***************************************************************************)
APPLE_RECORD_TYPES == {
    "HKQuantityTypeIdentifierStepCount",
    "HKQuantityTypeIdentifierDistanceWalkingRunning",
    "HKQuantityTypeIdentifierActiveEnergyBurned",
    "HKQuantityTypeIdentifierAppleExerciseTime",
    "HKQuantityTypeIdentifierRestingHeartRate",
    "HKQuantityTypeIdentifierVO2Max",
    "HKQuantityTypeIdentifierWalkingHeartRateAverage",
    "HKQuantityTypeIdentifierHeartRateVariabilitySDNN",
    "HKCategoryTypeIdentifierSleepAnalysis"}

SleepType == "HKCategoryTypeIdentifierSleepAnalysis"
DistanceType == "HKQuantityTypeIdentifierDistanceWalkingRunning"

\* the daily column each quantity type fills, and its reduction
AppleColumn == [t \in APPLE_RECORD_TYPES \ {SleepType} |->
    CASE t = "HKQuantityTypeIdentifierStepCount" -> [col |-> "steps", how |-> "sum"]
      [] t = "HKQuantityTypeIdentifierDistanceWalkingRunning" -> [col |-> "distance_km", how |-> "sum"]
      [] t = "HKQuantityTypeIdentifierActiveEnergyBurned" -> [col |-> "active_energy_kcal", how |-> "sum"]
      [] t = "HKQuantityTypeIdentifierAppleExerciseTime" -> [col |-> "active_minutes", how |-> "sum"]
      [] t = "HKQuantityTypeIdentifierRestingHeartRate" -> [col |-> "resting_hr", how |-> "mean"]
      [] t = "HKQuantityTypeIdentifierVO2Max" -> [col |-> "vo2max", how |-> "mean"]
      [] t = "HKQuantityTypeIdentifierWalkingHeartRateAverage" -> [col |-> "walking_hr_avg", how |-> "mean"]
      [] t = "HKQuantityTypeIdentifierHeartRateVariabilitySDNN" -> [col |-> "hrv_sdnn", how |-> "mean"]]

NoRecords == [t \in APPLE_RECORD_TYPES |-> <<>>]

\* parse_apple_records, one Record element: kept under its type when the type
\* is recognized, dropped otherwise
ParseRecord(recs, t, rec) ==
    IF t \in APPLE_RECORD_TYPES THEN [recs EXCEPT ![t] = Append(@, rec)] ELSE recs

\* "Asleep" in v, on the category values HealthKit writes
is_asleep(v) == v \in {"HKCategoryValueSleepAnalysisAsleep",
                       "HKCategoryValueSleepAnalysisAsleepCore"}

\* date_index: the dates of every table that is not empty
AppleDateIndex(recs) == UNION {TableDates(recs[t]) : t \in APPLE_RECORD_TYPES}

\* the columns build_daily_metrics adds: one per table that is not empty
AppleColumns(recs) ==
    {AppleColumn[t].col : t \in {u \in APPLE_RECORD_TYPES \ {SleepType} : recs[u] # <<>>}}
    \cup (IF recs[SleepType] # <<>> THEN {"sleep_minutes"} ELSE {})

AppleCell(recs, col, d) ==
    IF col = "sleep_minutes"
    THEN GroupAt(SelectSeq(recs[SleepType], LAMBDA r : is_asleep(r.category)),
                 "minutes", "sum", d)
    ELSE LET t == CHOOSE u \in APPLE_RECORD_TYPES \ {SleepType} : AppleColumn[u].col = col
         IN  GroupAt(recs[t], "value", AppleColumn[t].how, d)

\* one row of the frame: its date, its source and the columns that were added
FrameRow(d, source, cells) ==
    [c \in DOMAIN cells \cup {"date", "source"} |->
        IF c = "date" THEN d ELSE IF c = "source" THEN source ELSE cells[c][d]]

\* cells[c][d] is the cell of column c on date d
Frame(dates, source, cells) ==
    LET idx == SortedSeq(dates)
    IN  [i \in DOMAIN idx |-> FrameRow(idx[i], source, cells)]

\* build_daily_metrics of ingest_apple.py
BuildDailyMetricsApple(recs) ==
    IF AppleDateIndex(recs) = {}
    THEN [outcome |-> "ValueError", frame |-> <<>>]
    ELSE [outcome |-> "ok",
          frame |-> Frame(AppleDateIndex(recs), "apple",
                          [c \in AppleColumns(recs) |->
                              [d \in AppleDateIndex(recs) |-> AppleCell(recs, c, d)]])]

(***************************************************************************)
(* ingest_fitbit.py                                                        *)
(***************************************************************************)
FitbitFiles == {"activity", "steps", "sleep", "heart_rate"}

\* load_csv returned None for every file
NoCsv == [f \in FitbitFiles |-> [loaded |-> FALSE, columns |-> {}, rows |-> <<>>]]

\* "df is not None and not df.empty"
HasRows(t) == t.loaded /\ t.rows # <<>>

KmPerMile == 160934

\* all_dates: the dates (NaT dropped) of every table that has rows
FitbitAllDates(dfs) == UNION {TableDates(dfs[f].rows) : f \in {g \in FitbitFiles : HasRows(dfs[g])}}

\* the branch of "---- Steps ----" that is taken
StepsBranch(dfs) ==
    IF HasRows(dfs["steps"]) THEN "steps"
    ELSE IF dfs["activity"].loaded /\ "TotalSteps" \in dfs["activity"].columns THEN "activity"
    ELSE "none"

\* the fallback groups activity_df by "date", a column only the normalization
\* of a table with rows adds: on a table without rows groupby raises KeyError
StepsFallbackRaises(dfs) == StepsBranch(dfs) = "activity" /\ ~HasRows(dfs["activity"])

dist_col(dfs) ==
    IF "Distance" \in dfs["activity"].columns THEN "Distance"
    ELSE IF "TotalDistance" \in dfs["activity"].columns THEN "TotalDistance"
    ELSE "None"

FitbitColumns(dfs) ==
    (IF StepsBranch(dfs) # "none" THEN {"steps"} ELSE {})
    \cup (IF HasRows(dfs["activity"]) /\ dist_col(dfs) # "None" THEN {"distance_km"} ELSE {})
    \cup (IF HasRows(dfs["activity"]) /\ "Calories" \in dfs["activity"].columns
          THEN {"active_energy_kcal"} ELSE {})
    \cup (IF HasRows(dfs["sleep"]) /\ "TotalMinutesAsleep" \in dfs["sleep"].columns
          THEN {"sleep_minutes"} ELSE {})
    \cup (IF HasRows(dfs["heart_rate"]) /\ "Value" \in dfs["heart_rate"].columns
          THEN {"resting_hr"} ELSE {})

\* x * 1.60934 for a fixed-point x >= 0, the product formed in parts so that no
\* intermediate value leaves the 32-bit integers
ScaleKm(x) ==
    LET whole == x \div Unit
        frac == x % Unit
        hi == frac * (KmPerMile \div 100)
        lo == frac * (KmPerMile % 100)
    IN  whole * KmPerMile + (hi + lo \div 100) \div 1000

\* NaN * 1.60934 is NaN
TimesKmPerMile(x) == IF IsNa(x) THEN NaN ELSE Num(ScaleKm(Val(x)))

FitbitCell(dfs, col, d) ==
    CASE col = "steps" ->
            IF StepsBranch(dfs) = "steps"
            THEN GroupAt(dfs["steps"].rows, "StepTotal", "sum", d)
            ELSE GroupAt(dfs["activity"].rows, "TotalSteps", "sum", d)
      [] col = "distance_km" ->
            TimesKmPerMile(GroupAt(dfs["activity"].rows, dist_col(dfs), "sum", d))
      [] col = "active_energy_kcal" -> GroupAt(dfs["activity"].rows, "Calories", "sum", d)
      [] col = "sleep_minutes" -> GroupAt(dfs["sleep"].rows, "TotalMinutesAsleep", "sum", d)
      [] col = "resting_hr" -> GroupAt(dfs["heart_rate"].rows, "Value", "min", d)

\* build_daily_metrics of ingest_fitbit.py
BuildDailyMetricsFitbit(dfs) ==
    IF FitbitAllDates(dfs) = {}
    THEN [outcome |-> "empty", frame |-> <<>>]
    ELSE IF StepsFallbackRaises(dfs)
    THEN [outcome |-> "KeyError", frame |-> <<>>]
    ELSE [outcome |-> "ok",
          frame |-> Frame(FitbitAllDates(dfs), "fitbit",
                          [c \in FitbitColumns(dfs) |->
                              [d \in FitbitAllDates(dfs) |-> FitbitCell(dfs, c, d)]])]

(***************************************************************************)
(* The store behind supabase_client.py, and the upserts                    *)
(***************************************************************************)
\* select("*").eq("external_id", ext)
FindUser(us, ext) == {u \in us : u.external_id = ext}

\* a variant that inserts without looking the external id up
UsersAfterGetOrCreate_alwaysInsert(us, ext) ==
    us \cup {[id |-> Cardinality(us) + 1, external_id |-> ext]}

\* the users table after lookup-then-insert; the store assigns the new id
UsersAfterGetOrCreate(us, ext) ==
    IF FindUser(us, ext) = {}
    THEN us \cup {[id |-> Cardinality(us) + 1, external_id |-> ext]}
    ELSE us

\* res.data[0]["id"]
UserIdOf(us, ext) == (CHOOSE u \in UsersAfterGetOrCreate(us, ext) : u.external_id = ext).id

\* one get-or-create call as the history keeps it: what was asked, what came
\* back, and the users table before and after
Lookup(us, ext) ==
    [external_id |-> ext, id |-> UserIdOf(us, ext),
     before |-> us, after |-> UsersAfterGetOrCreate(us, ext)]

KeyOf(r) == <<r.user_id, r.date, r.source>>

DataColumns == {"steps", "distance_km", "active_minutes", "active_energy_kcal",
                "sleep_minutes", "resting_hr"}

\* a variant that keeps the stored value where the payload holds None
UpsertRow_keepOld(table, r) ==
    LET old == {x \in table : KeyOf(x) = KeyOf(r)}
        base == IF old = {} THEN [c \in DataColumns |-> NaN] ELSE CHOOSE x \in old : TRUE
        new == [c \in DataColumns \cup {"user_id", "date", "source"} |->
                    IF c \in DOMAIN r /\ ~(c \in DataColumns /\ IsNa(r[c])) THEN r[c] ELSE base[c]]
    IN  (table \ old) \cup {new}

\* upsert(batch, on_conflict="user_id,date,source") of one row: a row with the
\* key is updated in the columns the payload carries, else the payload is
\* inserted with every other column NULL
UpsertRow(table, r) ==
    LET old == {x \in table : KeyOf(x) = KeyOf(r)}
        base == IF old = {} THEN [c \in DataColumns |-> NaN] ELSE CHOOSE x \in old : TRUE
        new == [c \in DataColumns \cup {"user_id", "date", "source"} |->
                    IF c \in DOMAIN r THEN r[c] ELSE base[c]]
    IN  (table \ old) \cup {new}

\* the sequence s itself, evaluated element by element once
Tuple(s) == SubSeq(s, 1, Len(s))

\* the index of the last row that carries the key k, ks being the keys of
\* the rows of a batch
LastIndex(ks, k) ==
    CHOOSE i \in DOMAIN ks : ks[i] = k /\ \A j \in (i + 1) .. Len(ks) : ks[j] # k

\* the rows of one call applied in order: the rows of a call carry the same
\* columns, so for each key the last row that carries it is what is applied
\* to the stored row
UpsertBatch(table, batch) ==
    LET ks == Tuple([i \in DOMAIN batch |-> KeyOf(batch[i])])
        keys == {ks[i] : i \in DOMAIN ks}
    IN  {x \in table : KeyOf(x) \notin keys}
        \cup UNION {UpsertRow({x \in table : KeyOf(x) = k}, batch[LastIndex(ks, k)]) :
                       k \in keys}

RECURSIVE UpsertCalls(_, _)
\* the calls of one run, applied in order
UpsertCalls(table, calls) ==
    IF calls = <<>> THEN table
    ELSE UpsertCalls(UpsertBatch(table, Head(calls)), Tail(calls))

BATCH_SIZE == 500

RECURSIVE Batches(_, _)
\* rows[i:i + size] for i in range(0, len(rows), size)
Batches(rows, size) ==
    IF rows = <<>> THEN <<>>
    ELSE IF Len(rows) <= size THEN <<rows>>
    ELSE <<SubSeq(rows, 1, size)>> \o Batches(SubSeq(rows, size + 1, Len(rows)), size)

\* the payload row upsert_daily_metrics_to_supabase builds from a frame row
AppleRow(user_id, r) ==
    [c \in DataColumns \cup {"user_id", "date", "source"} |->
        CASE c = "user_id" -> user_id
          [] c = "date" -> r.date
          [] c = "source" -> "apple"
          [] c \in {"steps", "active_minutes"} ->
                IF IsNa(RowGet(r, c)) THEN NaN ELSE Num(IntOf(Val(r[c])))
          [] OTHER -> RowGet(r, c)]

\* the payload row upsert_daily_metrics builds: it carries no active_minutes
FitbitRow(user_id, r) ==
    [c \in (DataColumns \ {"active_minutes"}) \cup {"user_id", "date", "source"} |->
        CASE c = "user_id" -> user_id
          [] c = "date" -> r.date
          [] c = "source" -> r.source
          [] OTHER -> RowGet(r, c)]

\* upsert_daily_metrics_to_supabase: the user is looked up or created, then the
\* rows go out in batches; no rows, no call
UpsertApple(us, table, frame, ext) ==
    LET uid == UserIdOf(us, ext)
        rows == Tuple([i \in DOMAIN frame |-> AppleRow(uid, frame[i])])
        calls == Batches(rows, BATCH_SIZE)
    IN  [users |-> UsersAfterGetOrCreate(us, ext),
         lookups |-> {Lookup(us, ext)},
         calls |-> calls,
         daily_metrics |-> UpsertCalls(table, calls)]

UpsertFitbit_noGuard(us, table, frame, ext) ==
    LET uid == UserIdOf(us, ext)
        rows == Tuple([i \in DOMAIN frame |-> FitbitRow(uid, frame[i])])
    IN  [users |-> UsersAfterGetOrCreate(us, ext),
         lookups |-> {Lookup(us, ext)},
         calls |-> <<rows>>,
         daily_metrics |-> UpsertBatch(table, rows)]

\* upsert_daily_metrics: an empty frame returns before the store is touched;
\* otherwise every row goes out in one call
UpsertFitbit(us, table, frame, ext) ==
    IF frame = <<>>
    THEN [users |-> us, lookups |-> {}, calls |-> <<>>, daily_metrics |-> table]
    ELSE LET uid == UserIdOf(us, ext)
             rows == Tuple([i \in DOMAIN frame |-> FitbitRow(uid, frame[i])])
         IN  [users |-> UsersAfterGetOrCreate(us, ext),
              lookups |-> {Lookup(us, ext)},
              calls |-> <<rows>>,
              daily_metrics |-> UpsertBatch(table, rows)]

(***************************************************************************)
(* risk_score.py against the store                                         *)
(***************************************************************************)
RECURSIVE Flatten(_)
\* the rows of the calls of a run, one call after the other
Flatten(calls) == IF calls = <<>> THEN <<>> ELSE Head(calls) \o Flatten(Tail(calls))

\* get_or_create_user(user_external_id="kiki"), as main calls it
DefaultExternalId == "kiki"

RECURSIVE RowsIn(_, _, _)
\* the rows of S dated lo .. hi, by date and then by source
RowsIn(S, lo, hi) ==
    IF S = {} THEN <<>>
    ELSE IF lo = hi
    THEN LET a == {r \in S : r.source = "apple"}
         IN  (IF a = {} THEN <<>> ELSE <<CHOOSE r \in a : TRUE>>)
             \o (IF S \ a = {} THEN <<>> ELSE <<CHOOSE r \in S \ a : TRUE>>)
    ELSE LET mid == (lo + hi) \div 2
         IN  RowsIn({r \in S : r.date <= mid}, lo, mid)
             \o RowsIn({r \in S : r.date > mid}, mid + 1, hi)

\* res.data: the selected rows of one user in the order the store returns
\* them, taken here to be by date and source
RowsOf(S) ==
    IF S = {} THEN <<>>
    ELSE LET ds == {r.date : r \in S}
         IN  RowsIn(S, CHOOSE d \in ds : \A e \in ds : d <= e,
                       CHOOSE d \in ds : \A e \in ds : e <= d)

\* get_daily_metrics: select("*").eq("user_id", user_id), every source included
GetDailyMetrics(table, user_id) == RowsOf({r \in table : r.user_id = user_id})

\* the row upsert_risk_predictions builds from a scored row of df
PredictionRow(user_id, r) ==
    [user_id |-> user_id,
     date |-> r.date,
     model_name |-> "rule_based_v2",
     risk_score |-> Num(ComputeRiskScore(r)),
     risk_level |-> CategorizeRiskLevel(ComputeRiskScore(r))]

\* rows: one prediction per row of df, in the order of df
PredictionRows(user_id, df) == Tuple([i \in DOMAIN df |-> PredictionRow(user_id, df[i])])

PredictionKey(r) == <<r.user_id, r.date>>

\* the batch holds some key more than once
HasDuplicateKeys(rows) ==
    \E i, j \in DOMAIN rows : i < j /\ PredictionKey(rows[i]) = PredictionKey(rows[j])

\* upsert(rows, on_conflict="user_id,date"), the rows applied in order
UpsertPredictions(table, rows) ==
    LET ks == Tuple([i \in DOMAIN rows |-> PredictionKey(rows[i])])
        keys == {ks[i] : i \in DOMAIN ks}
    IN  {x \in table : PredictionKey(x) \notin keys}
        \cup {rows[LastIndex(ks, k)] : k \in keys}

\* what the one upsert call of upsert_risk_predictions can leave in the table:
\* the code does not say what the store does with a batch that holds a key
\* twice, it may reject the call or apply the rows in order
RiskUpsertOutcomes(table, rows) ==
    IF HasDuplicateKeys(rows)
    THEN {table, UpsertPredictions(table, rows)}
    ELSE {UpsertPredictions(table, rows)}

(***************************************************************************)
(* Specifications                                                          *)
(***************************************************************************)
NoRun == [source |-> "none", external_id |-> ""]

NoContrib == [m \in ScoredMetrics |-> 0]

ScoreIdle ==
    /\ contrib = NoContrib
    /\ matched = NoContrib
    /\ risk_score = NaN
    /\ risk_level = ""

BuildIdle ==
    /\ run = NoRun
    /\ records = NoRecords
    /\ csv = NoCsv
    /\ daily = <<>>
    /\ outcome = "none"

StoreIdle ==
    /\ users = {}
    /\ daily_metrics = {}
    /\ before = {}
    /\ upsert_calls = <<>>
    /\ runs = 0
    /\ risk_predictions = {}
    /\ lookups = {}

InitScore ==
    /\ pc = "fetched"
    /\ row \in ScoreInputs
    /\ ScoreIdle
    /\ BuildIdle
    /\ StoreIdle

\* main, line 185: df["risk_score"] = df.apply(compute_risk_score, axis=1)
ApplyComputeRiskScore ==
    /\ pc = "fetched"
    /\ contrib' = [m \in ScoredMetrics |-> Contribution(row, m)]
    /\ matched' = [m \in ScoredMetrics |-> MatchedBand(RowGet(row, m), bands[m])]
    /\ risk_score' = Num(ComputeRiskScore(row))
    /\ pc' = "scored"
    /\ UNCHANGED <<row, risk_level>>
    /\ UNCHANGED <<buildVars, storeVars>>

\* main, line 188: df["risk_level"] = df["risk_score"].apply(categorize_risk_level)
ApplyCategorizeRiskLevel ==
    /\ pc = "scored"
    /\ risk_level' = CategorizeRiskLevel(Val(risk_score))
    /\ pc' = "done"
    /\ UNCHANGED <<row, contrib, matched, risk_score>>
    /\ UNCHANGED <<buildVars, storeVars>>

NextScore == ApplyComputeRiskScore \/ ApplyCategorizeRiskLevel

SpecScore == InitScore /\ [][NextScore]_vars

(***************************************************************************)
(* One ingestion run against an empty store: the export is read record by  *)
(* record (Apple) or file by file and row by row (Fitbit), the daily frame *)
(* is built, and the frame is upserted.                                    *)
(***************************************************************************)
MaxRecords == 2
MaxRows == 2

Dates == {1, 2}
Sample == Num(10 * Unit)

\* the Record elements an export may hold, per type; the last type is one
\* parse_apple_records does not recognize
AppleSamples(t) ==
    CASE t = SleepType ->
            {[date |-> Num(d), unit |-> "", value |-> NaN, category |-> c, minutes |-> Num(420 * Unit)] :
                d \in Dates, c \in {"HKCategoryValueSleepAnalysisAsleep",
                                    "HKCategoryValueSleepAnalysisInBed"}}
      [] t = DistanceType ->
            {[date |-> Num(d), unit |-> u, value |-> v, category |-> "", minutes |-> NaN] :
                d \in Dates, u \in {"km", "mi"}, v \in {NaN, Sample}}
      [] OTHER ->
            {[date |-> Num(d), unit |-> "count", value |-> v, category |-> "", minutes |-> NaN] :
                d \in Dates, v \in {NaN, Sample}}

ExportTypes == APPLE_RECORD_TYPES \cup {"HKQuantityTypeIdentifierHeartRate"}

RECURSIVE SumOver(_, _)
SumOver(S, f) ==
    IF S = {} THEN 0
    ELSE LET x == CHOOSE y \in S : TRUE IN f[x] + SumOver(S \ {x}, f)

RecordCount(recs) == SumOver(APPLE_RECORD_TYPES, [t \in APPLE_RECORD_TYPES |-> Len(recs[t])])
RowCount(dfs) == SumOver(FitbitFiles, [f \in FitbitFiles |-> Len(dfs[f].rows)])

\* the header a Fitbit file may carry, besides its date column
CsvColumnSets(f) ==
    CASE f = "steps" -> {{"StepTotal"}}
      [] f = "activity" -> {{"TotalSteps", "TotalDistance", "Calories"},
                            {"TotalSteps", "Distance", "Calories"},
                            {"TotalSteps", "Calories"},
                            {"TotalDistance", "Calories"},
                            {"TotalSteps", "TotalDistance"}}
      [] f = "sleep" -> {{"TotalMinutesAsleep"}, {}}
      [] f = "heart_rate" -> {{"Value"}}

\* the rows a file with these columns may hold: a date that parses or not
\* (NaT), and a number in each column
CsvRows(cols) ==
    {[c \in cols \cup {"date"} |-> IF c = "date" THEN d ELSE Sample] :
        d \in {NaN} \cup {Num(x) : x \in Dates}}

NoRow == [m \in RowColumns |-> NaN]

InitIngest ==
    /\ pc = "reading"
    /\ run \in {[source |-> "apple", external_id |-> "kiki"],
                [source |-> "fitbit", external_id |-> "bella_a"]}
    /\ records = NoRecords
    /\ csv = NoCsv
    /\ daily = <<>>
    /\ outcome = "none"
    /\ row = NoRow
    /\ ScoreIdle
    /\ StoreIdle

\* parse_apple_records: the next Record element of export.xml
ReadAppleRecord ==
    /\ pc = "reading" /\ run.source = "apple"
    /\ RecordCount(records) < MaxRecords
    /\ \E t \in ExportTypes : \E rec \in AppleSamples(t) :
          records' = ParseRecord(records, t, rec)
    /\ UNCHANGED <<pc, run, csv, daily, outcome>>
    /\ UNCHANGED <<scoreVars, storeVars>>

\* load_csv: the file exists and is read
LoadCsv ==
    /\ pc = "reading" /\ run.source = "fitbit"
    /\ \E f \in FitbitFiles : \E cols \in CsvColumnSets(f) :
          /\ ~csv[f].loaded
          /\ csv' = [csv EXCEPT ![f] = [loaded |-> TRUE, columns |-> cols, rows |-> <<>>]]
    /\ UNCHANGED <<pc, run, records, daily, outcome>>
    /\ UNCHANGED <<scoreVars, storeVars>>

\* pd.read_csv: one more row of a file that exists
ReadCsvRow ==
    /\ pc = "reading" /\ run.source = "fitbit"
    /\ RowCount(csv) < MaxRows
    /\ \E f \in FitbitFiles : \E r \in CsvRows(csv[f].columns) :
          /\ csv[f].loaded
          /\ csv' = [csv EXCEPT ![f].rows = Append(@, r)]
    /\ UNCHANGED <<pc, run, records, daily, outcome>>
    /\ UNCHANGED <<scoreVars, storeVars>>

\* main of ingest_apple.py: build_daily_metrics(dfs); a ValueError ends the run
BuildApple ==
    /\ pc = "reading" /\ run.source = "apple"
    /\ LET b == BuildDailyMetricsApple(records)
       IN  /\ daily' = b.frame
           /\ outcome' = b.outcome
           /\ pc' = IF b.outcome = "ok" THEN "built" ELSE "failed"
    /\ UNCHANGED <<run, records, csv>>
    /\ UNCHANGED <<scoreVars, storeVars>>

\* main of ingest_fitbit.py: build_daily_metrics(dfs); a KeyError ends the run
BuildFitbit ==
    /\ pc = "reading" /\ run.source = "fitbit"
    /\ LET b == BuildDailyMetricsFitbit(csv)
       IN  /\ daily' = b.frame
           /\ outcome' = b.outcome
           /\ pc' = IF b.outcome = "KeyError" THEN "failed" ELSE "built"
    /\ UNCHANGED <<run, records, csv>>
    /\ UNCHANGED <<scoreVars, storeVars>>

\* main of ingest_apple.py: upsert_daily_metrics_to_supabase(daily)
WriteApple ==
    /\ pc = "built" /\ run.source = "apple"
    /\ LET w == UpsertApple(users, daily_metrics, daily, run.external_id)
       IN  /\ users' = w.users
           /\ daily_metrics' = w.daily_metrics
           /\ upsert_calls' = w.calls
           /\ lookups' = lookups \cup w.lookups
    /\ before' = daily_metrics
    /\ UNCHANGED risk_predictions
    /\ runs' = runs + 1
    /\ pc' = "done"
    /\ UNCHANGED scoreVars
    /\ UNCHANGED buildVars

\* main of ingest_fitbit.py: upsert_daily_metrics(daily_df, external_id)
WriteFitbit ==
    /\ pc = "built" /\ run.source = "fitbit"
    /\ LET w == UpsertFitbit(users, daily_metrics, daily, run.external_id)
       IN  /\ users' = w.users
           /\ daily_metrics' = w.daily_metrics
           /\ upsert_calls' = w.calls
           /\ lookups' = lookups \cup w.lookups
    /\ before' = daily_metrics
    /\ UNCHANGED risk_predictions
    /\ runs' = runs + 1
    /\ pc' = "done"
    /\ UNCHANGED scoreVars
    /\ UNCHANGED buildVars

NextIngest ==
    \/ ReadAppleRecord
    \/ LoadCsv
    \/ ReadCsvRow
    \/ BuildApple
    \/ BuildFitbit
    \/ WriteApple
    \/ WriteFitbit

SpecIngest == InitIngest /\ [][NextIngest]_vars

(***************************************************************************)
(* Ingestion runs one after another against the same store.  Each run is   *)
(* one step: the export is built and upserted under an external id (the    *)
(* frame is local to the step).  The exports drawn hold at most one record *)
(* (Apple) or one row (Fitbit).                                            *)
(***************************************************************************)
MaxRuns == 2

ExternalIds == {"kiki", "bella_a"}

AppleExports ==
    {NoRecords}
    \cup UNION {{ParseRecord(NoRecords, t, rec) : rec \in AppleSamples(t)} : t \in APPLE_RECORD_TYPES}

\* the tables of a Fitbit folder: each file missing or present with one of its
\* headers, and at most one row in all
FitbitFolders ==
    LET header(f) == {{"missing"}} \cup CsvColumnSets(f)
        headers == [activity : header("activity"), steps : header("steps"),
                    sleep : header("sleep"), heart_rate : header("heart_rate")]
        empty(h) == [f \in FitbitFiles |->
                        [loaded |-> h[f] # {"missing"},
                         columns |-> IF h[f] = {"missing"} THEN {} ELSE h[f],
                         rows |-> <<>>]]
    IN  {empty(h) : h \in headers}
        \cup UNION {UNION {{[empty(h) EXCEPT ![f].rows = <<r>>] : r \in CsvRows(h[f])} :
                            f \in {g \in FitbitFiles : h[g] # {"missing"}}} : h \in headers}

AppleBuilds == {BuildDailyMetricsApple(x) : x \in AppleExports}
FitbitBuilds == {BuildDailyMetricsFitbit(x) : x \in FitbitFolders}

Init ==
    /\ pc = "idle"
    /\ row = NoRow
    /\ ScoreIdle
    /\ BuildIdle
    /\ StoreIdle

\* ingest_apple.py, main: build_daily_metrics raises, or the frame is upserted
AppleIngest ==
    /\ runs < MaxRuns
    /\ \E ext \in ExternalIds : \E b \in AppleBuilds :
          LET w == UpsertApple(users, daily_metrics, b.frame, ext)
          IN  /\ run' = [source |-> "apple", external_id |-> ext]
              /\ outcome' = b.outcome
              /\ users' = IF b.outcome = "ok" THEN w.users ELSE users
              /\ daily_metrics' = IF b.outcome = "ok" THEN w.daily_metrics ELSE daily_metrics
              /\ upsert_calls' = IF b.outcome = "ok" THEN w.calls ELSE <<>>
              /\ lookups' = IF b.outcome = "ok" THEN lookups \cup w.lookups ELSE lookups
    /\ before' = daily_metrics
    /\ UNCHANGED risk_predictions
    /\ runs' = runs + 1
    /\ UNCHANGED <<pc, records, csv, daily>>
    /\ UNCHANGED scoreVars

\* ingest_fitbit.py, main, one user: build_daily_metrics raises, or the frame
\* (empty or not) goes to upsert_daily_metrics
FitbitIngest ==
    /\ runs < MaxRuns
    /\ \E ext \in ExternalIds : \E b \in FitbitBuilds :
          LET w == UpsertFitbit(users, daily_metrics, b.frame, ext)
          IN  /\ run' = [source |-> "fitbit", external_id |-> ext]
              /\ outcome' = b.outcome
              /\ users' = IF b.outcome # "KeyError" THEN w.users ELSE users
              /\ daily_metrics' = IF b.outcome # "KeyError" THEN w.daily_metrics ELSE daily_metrics
              /\ upsert_calls' = IF b.outcome # "KeyError" THEN w.calls ELSE <<>>
              /\ lookups' = IF b.outcome # "KeyError" THEN lookups \cup w.lookups ELSE lookups
    /\ before' = daily_metrics
    /\ UNCHANGED risk_predictions
    /\ runs' = runs + 1
    /\ UNCHANGED <<pc, records, csv, daily>>
    /\ UNCHANGED scoreVars

Next == AppleIngest \/ FitbitIngest

Spec == Init /\ [][Next]_vars

(***************************************************************************)
(* The whole pipeline: ingestion runs and scoring runs in any order        *)
(* against the same store.                                                 *)
(***************************************************************************)
\* scoring runs allowed after the last ingestion run
MaxScoreRuns == 1

\* risk_score.py, main: the user is looked up or created, every daily_metrics
\* row of the user is fetched and scored, and the predictions go out in one
\* upsert call; with no row fetched df has no columns, and the column
\* assignment of line 185 either raises or leaves an empty df that is uploaded
\* as an empty batch
ScoreRun ==
    /\ runs < MaxRuns + MaxScoreRuns
    /\ LET l == Lookup(users, DefaultExternalId)
           rows == PredictionRows(l.id, GetDailyMetrics(daily_metrics, l.id))
       IN  /\ users' = l.after
           /\ lookups' = lookups \cup {l}
           /\ upsert_calls' \in IF rows = <<>> THEN {<<>>, <<rows>>} ELSE {<<rows>>}
           /\ outcome' = IF upsert_calls' = <<>> THEN "Error" ELSE "ok"
           /\ risk_predictions' \in RiskUpsertOutcomes(risk_predictions, Flatten(upsert_calls'))
    /\ run' = [source |-> "score", external_id |-> DefaultExternalId]
    /\ before' = daily_metrics
    /\ runs' = runs + 1
    /\ UNCHANGED <<pc, records, csv, daily, daily_metrics>>
    /\ UNCHANGED scoreVars

NextPipeline == AppleIngest \/ FitbitIngest \/ ScoreRun

SpecPipeline == Init /\ [][NextPipeline]_vars

(***************************************************************************)
(* Claims about the scoring engine, checked under SpecScore                *)
(***************************************************************************)
Scored == pc \in {"scored", "done"}

AllMissing == \A m \in RowColumns : IsNa(row[m])

\* C1: whatever fields of the record are present or missing and whatever
\* their values, the score compute_risk_score returns lies in [0, 100].
C1_ScoreInRange ==
    Scored => /\ 0 <= Val(risk_score)
              /\ Val(risk_score) <= 100 * Unit

C1_Witness ==
    /\ pc = "scored"
    /\ IsNa(row.steps) /\ IsNa(row.vo2max)
    /\ row.resting_hr = Num(95 * Unit) /\ row.sleep_minutes = Num(300 * Unit)
    /\ Val(risk_score) > 50 * Unit

\* C2 as stated: a missing metric contributes exactly 0, so a record with
\* every field missing scores 0 and is "low".
C2_MissingIsZero ==
    pc = "done" =>
        /\ \A m \in ScoredMetrics : IsNa(row[m]) => contrib[m] = 0
        /\ AllMissing => (risk_score = Num(0) /\ risk_level = "low")

\* C2 amended: a missing metric contributes exactly half its weight (steps,
\* sleep_minutes, resting_hr 10; active_minutes 5; hrv_sdnn 7.5; vo2max 5;
\* walking_hr_avg 2.5), so a record with every field missing scores 50 and
\* is "medium".
C2_MissingIsHalfWeight ==
    pc = "done" =>
        /\ \A m \in ScoredMetrics : IsNa(row[m]) => 2 * contrib[m] = weights[m] * Unit
        /\ AllMissing => (risk_score = Num(50 * Unit) /\ risk_level = "medium")

C2_Witness == pc = "done" /\ AllMissing

\* the reference band table of the specification, in points
RefLt(x, t1, t2, p1, p2, p3) ==
    IF IsNa(x) THEN 0
    ELSE IF Val(x) < t1 * Unit THEN p1 * Unit
    ELSE IF Val(x) < t2 * Unit THEN p2 * Unit
    ELSE p3 * Unit

RefGt(x, t1, t2, p1, p2, p3) ==
    IF IsNa(x) THEN 0
    ELSE IF Val(x) > t1 * Unit THEN p1 * Unit
    ELSE IF Val(x) > t2 * Unit THEN p2 * Unit
    ELSE p3 * Unit

RefSum(r) ==
    RefLt(r.steps, 3000, 6000, 30, 15, 5)
    + RefLt(r.sleep_minutes, 360, 420, 30, 15, 5)
    + RefGt(r.resting_hr, 85, 75, 30, 15, 5)
    + RefLt(r.active_minutes, 30, 60, 20, 10, 5)
    + RefLt(r.active_energy_kcal, 300, 600, 20, 10, 5)

\* the rule_based_v2 table, in half points (every entry is a multiple of 0.5)
V2Lt(x, t1, t2, t3, h1, h2, h3, h4, hMissing) ==
    (IF IsNa(x) THEN hMissing
     ELSE IF Val(x) < t1 * Unit THEN h1
     ELSE IF Val(x) < t2 * Unit THEN h2
     ELSE IF Val(x) < t3 * Unit THEN h3
     ELSE h4) * (Unit \div 2)

V2Gt(x, t1, t2, t3, h1, h2, h3, h4, hMissing) ==
    (IF IsNa(x) THEN hMissing
     ELSE IF Val(x) > t1 * Unit THEN h1
     ELSE IF Val(x) > t2 * Unit THEN h2
     ELSE IF Val(x) > t3 * Unit THEN h3
     ELSE h4) * (Unit \div 2)

V2Sum(r) ==
    V2Lt(r.steps, 3000, 6000, 9000, 40, 28, 16, 8, 20)
    + V2Lt(r.sleep_minutes, 360, 420, 540, 40, 28, 16, 8, 20)
    + V2Gt(r.resting_hr, 90, 80, 70, 40, 28, 16, 8, 20)
    + V2Lt(r.active_minutes, 20, 40, 60, 16, 12, 8, 4, 10)
    + V2Lt(r.hrv_sdnn, 20, 40, 60, 30, 21, 15, 9, 15)
    + V2Lt(r.vo2max, 30, 35, 45, 20, 14, 10, 6, 10)
    + V2Gt(r.walking_hr_avg, 120, 110, 100, 10, 7, 5, 3, 5)

OnlyThree(steps, sleep, hr) ==
    /\ row.steps = Num(steps * Unit)
    /\ row.sleep_minutes = Num(sleep * Unit)
    /\ row.resting_hr = Num(hr * Unit)
    /\ \A m \in RowColumns \ {"steps", "sleep_minutes", "resting_hr"} : IsNa(row[m])

\* C3 as stated: the score is the clamped sum of the reference table (steps
\* 30/15/5, sleep 30/15/5, resting_hr 30/15/5, active_minutes 20/10/5,
\* active_energy_kcal 20/10/5, missing 0); 2000/300/90 scores 90 and
\* 8000/480/60 scores 15.
C3_ReferenceTable ==
    Scored =>
        /\ Val(risk_score) = Min(RefSum(row), 100 * Unit)
        /\ OnlyThree(2000, 300, 90) => risk_score = Num(90 * Unit)
        /\ OnlyThree(8000, 480, 60) => risk_score = Num(15 * Unit)

\* C3 amended: the score is the clamped sum of the rule_based_v2 table: steps
\* <3000 20, <6000 14, <9000 8, else 4; sleep_minutes <360 20, <420 14, <540 8,
\* else 4; resting_hr >90 20, >80 14, >70 8, else 4; active_minutes <20 8,
\* <40 6, <60 4, else 2; hrv_sdnn <20 15, <40 10.5, <60 7.5, else 4.5; vo2max
\* <30 10, <35 7, <45 5, else 3; walking_hr_avg >120 5, >110 3.5, >100 2.5,
\* else 1.5; missing: half the weight (10, 10, 10, 5, 7.5, 5, 2.5);
\* active_energy_kcal is not scored.  2000/300/90 with all else missing
\* scores 74 and 8000/480/60 scores 40.
C3_V2Table ==
    Scored =>
        /\ Val(risk_score) = Min(V2Sum(row), 100 * Unit)
        /\ OnlyThree(2000, 300, 90) => risk_score = Num(74 * Unit)
        /\ OnlyThree(8000, 480, 60) => risk_score = Num(40 * Unit)

C3_Witness == pc = "scored" /\ OnlyThree(2000, 300, 90) /\ risk_score = Num(74 * Unit)

Rank(level) == CASE level = "low" -> 0 [] level = "medium" -> 1 [] level = "high" -> 2

LevelByThresholds(score, medium, high) ==
    IF score >= high * Unit THEN "high"
    ELSE IF score >= medium * Unit THEN "medium"
    ELSE "low"

\* scores around the thresholds, in half points
ScoreSamples == {h * (Unit \div 2) : h \in {0, 79, 80, 89, 90, 139, 140, 200}}

\* C4 as stated: the level depends only on the score, is non-decreasing in
\* it, and is "high" iff score >= 70, "medium" iff 40 <= score < 70, "low"
\* otherwise.
C4_Medium40 ==
    pc = "done" => risk_level = LevelByThresholds(Val(risk_score), 40, 70)

\* C4 amended: the level depends only on the score, is non-decreasing in it,
\* and is "high" iff score >= 70, "medium" iff 45 <= score < 70, "low"
\* otherwise.
C4_Medium45 ==
    pc = "done" =>
        /\ risk_level = LevelByThresholds(Val(risk_score), 45, 70)
        /\ \A s \in ScoreSamples :
              /\ s <= Val(risk_score) => Rank(CategorizeRiskLevel(s)) <= Rank(risk_level)
              /\ s >= Val(risk_score) => Rank(CategorizeRiskLevel(s)) >= Rank(risk_level)

C4_Witness ==
    /\ pc = "done"
    /\ Val(risk_score) >= 45 * Unit /\ Val(risk_score) < 50 * Unit
    /\ risk_level = "medium"

\* the strict comparison a band's lambda is required to make
StrictlyHolds(b, v) ==
    \/ b.op = "true"
    \/ b.op = "lt" /\ v < b.thr
    \/ b.op = "gt" /\ v > b.thr

\* C5: for a present value the contribution is that of the first band whose
\* predicate holds, comparisons are strict (a value equal to a threshold does
\* not match that threshold's band: steps = 3000 takes the second band), and
\* the no-band-matched fallback is never reached.
C5_FirstStrictBand ==
    Scored =>
        \A m \in ScoredMetrics :
            ~IsNa(row[m]) =>
                LET v == Val(row[m])
                    bs == bands[m]
                    k == matched[m]
                IN  /\ k \in 1..Len(bs)
                    /\ StrictlyHolds(bs[k], v)
                    /\ \A j \in 1..(k - 1) : ~StrictlyHolds(bs[j], v)
                    /\ \A j \in 1..Len(bs) : (bs[j].op # "true" /\ bs[j].thr = v) => k # j
                    /\ contrib[m] = weights[m] * bs[k].fraction
                    /\ (m = "steps" /\ v = 3000 * Unit) => contrib[m] = 14 * Unit

C5_Witness ==
    /\ pc = "scored"
    /\ row.steps = Num(3000 * Unit) /\ matched.steps = 2
    /\ row.resting_hr = Num(90 * Unit) /\ matched.resting_hr = 2

(***************************************************************************)
(* Claims about one ingestion run, checked under SpecIngest                *)
(***************************************************************************)
Built == pc \in {"built", "failed", "done"}

\* the union of the date sets of the run's input tables
InputDates ==
    IF run.source = "apple"
    THEN {d \in Dates : \E t \in APPLE_RECORD_TYPES : \E i \in DOMAIN records[t] :
                            records[t][i].date = Num(d)}
    ELSE {d \in Dates : \E f \in FitbitFiles : \E i \in DOMAIN csv[f].rows :
                            csv[f].rows[i].date = Num(d)}

DailyColumns == DataColumns \cup {"vo2max", "walking_hr_avg", "hrv_sdnn"}

AppleTypeOf(c) == CHOOSE t \in APPLE_RECORD_TYPES \ {SleepType} : AppleColumn[t].col = c

\* the table and the column a Fitbit metric is read from ("None": from nowhere)
FitbitSourceOf(c) ==
    CASE c = "steps" -> IF csv["steps"].rows # <<>> THEN <<"steps", "StepTotal">>
                        ELSE <<"activity", "TotalSteps">>
      [] c = "distance_km" -> <<"activity", dist_col(csv)>>
      [] c = "active_energy_kcal" -> <<"activity", "Calories">>
      [] c = "sleep_minutes" -> <<"sleep", "TotalMinutesAsleep">>
      [] c = "resting_hr" -> <<"heart_rate", "Value">>
      [] OTHER -> <<"activity", "None">>

\* the samples of metric c dated d, as the positions of its table
SamplesAt(c, d) ==
    IF run.source = "apple"
    THEN IF c = "sleep_minutes"
         THEN {i \in DOMAIN records[SleepType] :
                  /\ records[SleepType][i].date = Num(d)
                  /\ records[SleepType][i].category = "HKCategoryValueSleepAnalysisAsleep"}
         ELSE {i \in DOMAIN records[AppleTypeOf(c)] : records[AppleTypeOf(c)][i].date = Num(d)}
    ELSE LET src == FitbitSourceOf(c)
         IN  IF src[2] \notin csv[src[1]].columns THEN {}
             ELSE {i \in DOMAIN csv[src[1]].rows : csv[src[1]].rows[i].date = Num(d)}

\* those of them whose value parsed as a number
ParsedAt(c, d) ==
    IF run.source = "apple" /\ c # "sleep_minutes"
    THEN {i \in SamplesAt(c, d) : ~IsNa(records[AppleTypeOf(c)][i].value)}
    ELSE SamplesAt(c, d)

AdditiveColumns == {"steps", "distance_km", "active_energy_kcal", "active_minutes"}

\* what n parsed samples, each Sample (each sleep segment 420 minutes), reduce to
ExpectedCell(c, n) ==
    CASE c = "sleep_minutes" /\ run.source = "apple" -> Num(n * 420 * Unit)
      [] c = "distance_km" /\ run.source = "fitbit" -> Num(n * 10 * KmPerMile)
      [] c \in AdditiveColumns \cup {"sleep_minutes"} -> Num(n * 10 * Unit)
      [] OTHER -> Sample

\* C6: build_daily_metrics (both sources) returns exactly one record per date
\* of the union of the input tables' dates; on each record a metric with no
\* sample that day is missing and a metric with data holds its reduced value.
C6_OneRecordPerUnionDate ==
    (Built /\ InputDates # {}) =>
        /\ outcome = "ok"
        /\ Len(daily) = Cardinality(InputDates)
        /\ \A d \in InputDates : \E i \in DOMAIN daily : daily[i].date = d
        /\ \A i \in DOMAIN daily : \A c \in DailyColumns :
              /\ SamplesAt(c, daily[i].date) = {} => IsNa(RowGet(daily[i], c))
              /\ ParsedAt(c, daily[i].date) # {} =>
                    RowGet(daily[i], c) = ExpectedCell(c, Cardinality(ParsedAt(c, daily[i].date)))

\* C7 as stated: for every source, an empty union of dates makes the build
\* fail with an error; no empty record set is returned and nothing is written.
C7_EmptyUnionFails ==
    (Built /\ InputDates = {}) =>
        /\ outcome = "ValueError"
        /\ pc = "failed"
        /\ upsert_calls = <<>> /\ daily_metrics = {}

\* C7 amended: with an empty union of dates the Apple build fails with a
\* ValueError surfaced to the caller; the Fitbit build returns an empty
\* record set, which upsert_daily_metrics skips; in neither case is the
\* store touched.
C7_EmptyUnionNeverWritten ==
    (Built /\ InputDates = {}) =>
        /\ run.source = "apple" => (outcome = "ValueError" /\ pc = "failed")
        /\ run.source = "fitbit" => (outcome = "empty" /\ daily = <<>> /\ pc \in {"built", "done"})
        /\ upsert_calls = <<>> /\ daily_metrics = {} /\ users = {}

C7_Witness ==
    /\ pc = "done" /\ run.source = "fitbit"
    /\ InputDates = {}
    /\ csv["sleep"].rows # <<>>

\* the record of date d in the frame
DailyAt(d) == daily[CHOOSE i \in DOMAIN daily : daily[i].date = d]

\* C8: an unparseable sample is left out of the reduction, never counted as 0:
\* a mean is the mean of the parsed samples, and an additive metric whose
\* samples of a date are all unparseable is missing on that date's record,
\* in the frame and in the row written to the store.
C8_UnparseableIsMissing ==
    (run.source = "apple" /\ outcome = "ok") =>
        \A d \in InputDates :
            /\ \A c \in {"resting_hr", "vo2max", "walking_hr_avg", "hrv_sdnn"} :
                  ParsedAt(c, d) # {} => RowGet(DailyAt(d), c) = Sample
            /\ \A c \in AdditiveColumns :
                  (SamplesAt(c, d) # {} /\ ParsedAt(c, d) = {}) =>
                      /\ IsNa(RowGet(DailyAt(d), c))
                      /\ pc = "done" => \A r \in daily_metrics : r.date = d => IsNa(r[c])

\* the distance samples of date d are all in miles, and some parsed
MilesAt(d) ==
    /\ ParsedAt("distance_km", d) # {}
    /\ run.source = "apple" =>
          \A i \in SamplesAt("distance_km", d) : records[DistanceType][i].unit = "mi"

\* C9: for every source, a day's distance given in miles is written to
\* distance_km as (sum of the mile values) * 1.60934, whatever the source and
\* the unit attribute of the samples.
C9_MilesWrittenAsKm ==
    pc = "done" =>
        \A r \in daily_metrics :
            MilesAt(r.date) =>
                r.distance_km = Num(Cardinality(ParsedAt("distance_km", r.date)) * 10 * KmPerMile)

(***************************************************************************)
(* Claims about the store, checked under Spec                              *)
(***************************************************************************)
\* the payload rows of the last run, over all its calls
LastPayload == UNION {Range(upsert_calls[i]) : i \in DOMAIN upsert_calls}

\* C10: after any sequence of ingestion runs daily_metrics holds at most one
\* row per (user_id, date, source); the row of a key the last run wrote
\* carries every field of that run's payload, missing fields included; every
\* other row, in particular one of another source for the same user and
\* date, is as the run found it.
C10_UpsertReplaces ==
    /\ \A r1, r2 \in daily_metrics : KeyOf(r1) = KeyOf(r2) => r1 = r2
    /\ \A p \in LastPayload :
          \E r \in daily_metrics :
              /\ KeyOf(r) = KeyOf(p)
              /\ \A c \in DOMAIN p : r[c] = p[c]
    /\ \A r \in before :
          (\A p \in LastPayload : KeyOf(p) # KeyOf(r)) => r \in daily_metrics
    /\ \A r \in daily_metrics :
          (\A p \in LastPayload : KeyOf(p) # KeyOf(r)) => r \in before

\* a row whose steps the first run wrote is rewritten by the second run with
\* steps missing and sleep_minutes present
C10_Witness ==
    /\ runs = 2
    /\ \E old \in before : \E new \in daily_metrics :
          /\ KeyOf(old) = KeyOf(new)
          /\ ~IsNa(old.steps) /\ IsNa(new.steps) /\ ~IsNa(new.sleep_minutes)
          /\ new \in LastPayload

\* a run writes a key whose user and date already hold a row of the other
\* source, which stays
C10_OtherSourceKept ==
    /\ runs = 2
    /\ \E new \in LastPayload : \E other \in before :
          /\ other.user_id = new.user_id /\ other.date = new.date
          /\ other.source # new.source
          /\ other \in daily_metrics

(***************************************************************************)
(* The users table under get-or-create calls made one after another, from  *)
(* any of the three places that look a user up.                            *)
(***************************************************************************)
MaxCalls == 4

\* "kiki" is the default of ingest_apple.py and risk_score.py, the others
\* are the users of ingest_fitbit.py's main
UserExternalIds == {"kiki", "bella_a", "bella_b"}

InitUsers ==
    /\ pc = "idle"
    /\ row = NoRow
    /\ ScoreIdle
    /\ BuildIdle
    /\ StoreIdle

\* one lookup-then-insert on the users table, made by fn
GetOrCreate(fn, ext) ==
    /\ runs < MaxCalls
    /\ users' = Lookup(users, ext).after
    /\ lookups' = lookups \cup {Lookup(users, ext)}
    /\ run' = [source |-> fn, external_id |-> ext]
    /\ runs' = runs + 1
    /\ UNCHANGED <<pc, records, csv, daily, outcome>>
    /\ UNCHANGED <<daily_metrics, before, upsert_calls, risk_predictions>>
    /\ UNCHANGED scoreVars

\* risk_score.py: get_or_create_user
GetOrCreateUser == \E ext \in UserExternalIds : GetOrCreate("get_or_create_user", ext)

\* ingest_fitbit.py: get_or_create_user_id
GetOrCreateUserId == \E ext \in UserExternalIds : GetOrCreate("get_or_create_user_id", ext)

\* ingest_apple.py: the lookup that opens upsert_daily_metrics_to_supabase
AppleGetOrCreateUser ==
    \E ext \in UserExternalIds : GetOrCreate("upsert_daily_metrics_to_supabase", ext)

NextUsers == GetOrCreateUser \/ GetOrCreateUserId \/ AppleGetOrCreateUser

SpecUsers == InitUsers /\ [][NextUsers]_vars

(***************************************************************************)
(* Long result sets: a frame of many days is written by either ingestion,  *)
(* and scoring runs fetch and upload what the store then holds.            *)
(***************************************************************************)
MaxResultRows == 1001

\* lengths around zero, one batch, and two batches
ResultSizes ==
    (0 .. 2) \cup ((BATCH_SIZE - 1) .. (BATCH_SIZE + 1))
             \cup ((2 * BATCH_SIZE - 1) .. MaxResultRows)

\* the frame build_daily_metrics returns for n days of step counts
LongFrame(n, source) ==
    [i \in 1 .. n |-> [date |-> i, source |-> source, steps |-> Sample]]

\* the build is over and its frame is about to be written; the Apple build
\* returns no empty frame
InitBatch ==
    /\ pc = "built"
    /\ row = NoRow
    /\ ScoreIdle
    /\ records = NoRecords
    /\ csv = NoCsv
    /\ outcome = "ok"
    /\ run \in [source : {"apple", "fitbit"}, external_id : ExternalIds]
    /\ \E n \in ResultSizes :
          /\ run.source = "apple" => n > 0
          /\ daily = LongFrame(n, run.source)
    /\ StoreIdle

NextBatch == WriteApple \/ WriteFitbit \/ ScoreRun

SpecBatch == InitBatch /\ [][NextBatch]_vars

(***************************************************************************)
(* Claims about scoring runs, checked under SpecPipeline                   *)
(***************************************************************************)
ScoreUploaded == run.source = "score" /\ outcome = "ok" /\ upsert_calls # <<>>

\* C11: in one scoring run the batch handed to the risk_predictions upsert
\* holds at most one row per (user_id, date), also when the user's daily
\* metrics hold rows of more than one source for a date, and every row of the
\* batch has a daily_metrics row in the store for its (user_id, date).
C11_OneRowPerUserDate ==
    ScoreUploaded =>
        LET rows == upsert_calls[1]
        IN  /\ ~HasDuplicateKeys(rows)
            /\ \A i \in DOMAIN rows :
                  \E m \in daily_metrics :
                     m.user_id = rows[i].user_id /\ m.date = rows[i].date

\* C11, the part that holds: every row of the batch comes from a stored
\* daily_metrics row of the same user and date
C11_RowsComeFromStore ==
    ScoreUploaded =>
        \A i \in DOMAIN upsert_calls[1] :
           \E m \in daily_metrics :
              m.user_id = upsert_calls[1][i].user_id /\ m.date = upsert_calls[1][i].date

\* a scoring run whose user has an apple row and a fitbit row for one date
C11_TwoSourcesScored ==
    /\ ScoreUploaded
    /\ \E a, b \in daily_metrics :
          /\ a.user_id = b.user_id /\ a.date = b.date
          /\ a.source = "apple" /\ b.source = "fitbit"
          /\ a.user_id = upsert_calls[1][1].user_id

(***************************************************************************)
(* Claims about find-or-create, checked under SpecUsers                    *)
(***************************************************************************)
Requested == {l.external_id : l \in lookups}

\* C13: after any sequence of get-or-create calls made one after another the
\* users table holds exactly one row for each external_id that was requested
\* (and none for any other), every call for the same external_id returned
\* the same id, and a call for an external_id that was already there left
\* the table unchanged.
C13_FindOrCreateIdempotent ==
    /\ \A ext \in Requested : Cardinality(FindUser(users, ext)) = 1
    /\ {u.external_id : u \in users} = Requested
    /\ \A a, b \in lookups : a.external_id = b.external_id => a.id = b.id
    /\ \A l \in lookups :
          /\ FindUser(l.after, l.external_id) = {[id |-> l.id, external_id |-> l.external_id]}
          /\ FindUser(l.before, l.external_id) # {} => l.after = l.before

\* two external ids were requested, one of them again after it was created
C13_Witness ==
    /\ Cardinality(Requested) = 2
    /\ \E a, b \in lookups :
          /\ a.external_id = b.external_id
          /\ FindUser(a.before, a.external_id) = {}
          /\ FindUser(b.before, b.external_id) # {}
          /\ Cardinality(b.before) = 2

(***************************************************************************)
(* Claims about batched delivery, checked under SpecBatch                  *)
(***************************************************************************)
DatesOf(rows) == [i \in DOMAIN rows |-> rows[i].date]

IngestWritten == pc = "done" /\ run.source \in {"apple", "fitbit"}

\* the dates of the result set the last run had to deliver, in row order
ResultSetDates ==
    IF run.source = "score"
    THEN DatesOf(GetDailyMetrics(daily_metrics, UserIdOf(users, run.external_id)))
    ELSE DatesOf(daily)

RowsInOrderOnce ==
    (IngestWritten \/ ScoreUploaded) => DatesOf(Flatten(upsert_calls)) = ResultSetDates

\* C12: every write call to the store (daily metrics of either source, and
\* risk predictions) carries at most 500 records, the calls are issued in row
\* order and every row of the result set is in exactly one call.
C12_AtMost500PerCall ==
    /\ (IngestWritten \/ ScoreUploaded) =>
          \A k \in DOMAIN upsert_calls : Len(upsert_calls[k]) <= BATCH_SIZE
    /\ RowsInOrderOnce

\* C12 for ingest_apple.py alone, the one writer that chunks
C12_AppleAtMost500 ==
    (IngestWritten /\ run.source = "apple") =>
        \A k \in DOMAIN upsert_calls : Len(upsert_calls[k]) <= BATCH_SIZE

\* an Apple frame of more than two batches was written
C12_AppleThreeCalls ==
    /\ IngestWritten /\ run.source = "apple"
    /\ Len(upsert_calls) = 3

====
